---- MODULE Spec2Model ----
(***************************************************************************)
(* Model of tg/controllers/__init__.py: the Controller that reconciles the *)
(* chat/message Store with inbound update events (backend-notification     *)
(* context) and key presses (main context), and drives the three panes of  *)
(* the rendering surface through the Render Gate lock.                      *)
(*                                                                         *)
(* Spec     : every handler and every key action runs to completion        *)
(*            (sequential semantics, any order of events and keys).        *)
(* SpecConc : the two contexts interleave at the granularity of lock       *)
(*            acquisition and of the start/end of each draw call.          *)
(***************************************************************************)
EXTENDS Integers, Sequences, FiniteSets, TLC

\* ------------------------------------------------------------------ bounds
\* Number of operations (events handled + keys pressed) explored per run.
MaxSteps == 3
\* Number of messages the Store keeps per chat.
MaxMsgs == 2
\* Number of operations per run when the two contexts interleave (SpecConc).
MaxConcSteps == 2
\* Largest height of the chat pane.
MaxRows == 6
\* Number of chats of the list whose pane is scrolled (SpecRender).
MaxChats == 6

\* ------------------------------------------------------- program constants
\* "forever" sentinel of the mute key.
MuteForever == 2147483647
\* J / K move by ten.
BigStep == 10
\* Python's None; also the falsy file id of a message without a file.
None == 0
\* config.max_download_size (tg.config is not part of the sources).
max_download_size == 2
\* chat_size, in hundredths: 0.5 in chat-list mode, 0.2 in message-list mode.
ChatListRatio == 50
MsgListRatio == 20
\* The scroll threshold render() passes on (the second assignment wins).
MSGS_LEFT_SCROLL_THRESHOLD == 2

\* ----------------------------------------------------------------- domains
\* Chats of the chat list, and the ids an inbound event may name (3 is a chat
\* the list does not hold).
ChatIds == {1, 2, 3}
\* Chats that inbound events concern: one the list holds (selected or not,
\* by the position of the cursor) and one it does not hold.
EventChats == {1, 3}
\* Orders that inbound events carry (the list starts with orders 5 and 10).
Orders == {5, 20}
Titles == {"t1"}
MsgIds == {1, 2}
FileIds == {7}
Sizes == {1, 3}
Me == "me"
Users == {"me", "other"}
\* The sender of a message record that has no "sender_user_id".
Absent == "absent"
Repeats == {1, 2}
Panes == {"chats", "msgs", "status"}
\* The main context (input loop) and the backend-notification context.
Contexts == {"main", "upd"}

\* A message content: text, or a document with a file reference.
TextContent == [type |-> "text", file_id |-> None, size |-> 0, downloaded |-> FALSE]
DocContent(f, sz, dl) == [type |-> "doc", file_id |-> f, size |-> sz, downloaded |-> dl]
Contents == {TextContent} \cup {DocContent(f, sz, FALSE) : f \in FileIds, sz \in Sizes}
Msg(id, chat_id, sender, content) ==
    [id |-> id, chat_id |-> chat_id, sender_user_id |-> sender, content |-> content]
\* Messages of inbound events: text and small documents from either user, a
\* large document from the other user; the chat the list does not hold
\* receives text only.
Messages ==
    {m \in [id : MsgIds, chat_id : EventChats, sender_user_id : Users, content : Contents] :
        /\ m.content.size > 1 => m.sender_user_id # Me
        /\ m.chat_id # 1 => m.content = TextContent}
\* Messages of malformed new-message events: the record has no sender.
SenderlessMessages ==
    [id : MsgIds, chat_id : EventChats, sender_user_id : {Absent}, content : Contents]

\* ------------------------------------------------------------- the Store
\* tg.models is not part of the sources: these follow the specification.

\* Display order: (is_pinned desc, order desc).
Before(a, b) ==
    \/ a.is_pinned /\ ~b.is_pinned
    \/ a.is_pinned = b.is_pinned /\ a.order > b.order

RECURSIVE Insert(_, _)
Insert(c, s) ==
    IF s = <<>> THEN <<c>>
    ELSE IF Before(c, Head(s)) THEN <<c>> \o s
    ELSE <<Head(s)>> \o Insert(c, Tail(s))

\* Stable sort of the chat list into display order.
RECURSIVE SortChats(_)
SortChats(s) ==
    IF s = <<>> THEN <<>>
    ELSE Insert(s[Len(s)], SortChats(SubSeq(s, 1, Len(s) - 1)))

HasChat(cs, chat_id) == \E i \in 1..Len(cs) : cs[i].id = chat_id

\* update_chat(chat_id, **updates): merge the named fields into the record of
\* chat_id, then re-derive the display order.
update_chat(cs, chat_id, updates) ==
    SortChats([i \in 1..Len(cs) |->
        IF cs[i].id = chat_id
        THEN [f \in DOMAIN cs[i] |->
                 IF f \in DOMAIN updates THEN updates[f] ELSE cs[i][f]]
        ELSE cs[i]])

\* id_by_index(index): the id of the chat at a 0-based index, None out of range.
id_by_index(cs, index) ==
    IF index >= Len(cs) THEN None ELSE cs[index + 1].id

\* next_chat / prev_chat / first_chat: the new 0-based cursor (clamped).
next_chat(cs, cur, step) ==
    IF cur + step > Len(cs) - 1 THEN Len(cs) - 1 ELSE cur + step
prev_chat(cs, cur, step) ==
    IF cur - step < 0 THEN 0 ELSE cur - step
first_chat(cs, cur) == 0

\* is_me(user_id)
is_me(user_id) == user_id = Me

HasMsg(ms, msg_id) == \E i \in 1..Len(ms) : ms[i].id = msg_id

\* msgs.add_message(chat_id, msg): a message is identified by (chat_id, id).
add_message(mm, chat_id, msg) ==
    IF HasMsg(mm[chat_id], msg.id) THEN mm
    ELSE [mm EXCEPT ![chat_id] = Append(@, msg)]

RECURSIVE Without(_, _)
Without(ms, msg_id) ==
    IF ms = <<>> THEN <<>>
    ELSE IF Head(ms).id = msg_id THEN Without(Tail(ms), msg_id)
    ELSE <<Head(ms)>> \o Without(Tail(ms), msg_id)

\* msgs.remove_message(chat_id, msg_id)
remove_message(mm, chat_id, msg_id) ==
    [mm EXCEPT ![chat_id] = Without(@, msg_id)]

\* msgs.update_msg_content(chat_id, msg_id, new_content): in place.
store_update_msg_content(mm, chat_id, msg_id, new_content) ==
    [mm EXCEPT ![chat_id] = [i \in 1..Len(@) |->
        IF @[i].id = msg_id THEN [@[i] EXCEPT !.content = new_content] ELSE @[i]]]

\* ------------------------------------------------------------------ state
VARIABLES
    chats,          \* model.chats.chats: the chat records in display order
    current_chat,   \* model.current_chat: 0-based index into chats
    msgs,           \* model.msgs.msgs: chat id -> messages
    downloads,      \* model.downloads: set of <<file_id, chat_id, msg_id>>
    mode,           \* position of the main context: start, chats, msgs, ended
    ended_by,       \* why handle_chats ended: none, quit, error
    last,           \* the last operation: [op, chat_id, sel, cur, again]
    calls,          \* backend calls the last operation made
    drawn,          \* draw calls the last operation made: [pane, locked]
    notified,       \* desktop notifications the last operation raised
    steps,          \* operations so far
    chat_size,      \* self.chat_size, in hundredths
    resized,        \* the surface calls of the last resize, in order
    status_msg,     \* the text of the last update_status(level, msg)
    msg_idx,        \* per chat, the message cursor (0-based)
    page_size,      \* view.chats.h: the height of the chat pane
    lock,           \* self.lock: free, or the context that holds it
    todo,           \* per context, what is left of its current operation
    drawing,        \* draw calls in progress: <<context, pane>>
    suspended,      \* the main context is inside `with suspend(self.view)`
    seen            \* the message ids the main context's last message draw read

vars == <<chats, current_chat, msgs, downloads, mode, ended_by,
          last, calls, drawn, notified, steps, chat_size, resized,
          status_msg, msg_idx, page_size,
          lock, todo, drawing, suspended, seen>>

\* The state of the interleaving of the two contexts.
conc == <<lock, todo, drawing, suspended, seen>>
\* The geometry of the chat pane.
page == <<page_size>>
\* The status line and the message cursors.
prompt == <<status_msg, msg_idx>>
\* What an operation run to completion in chat-list mode leaves alone.
rest == <<conc, page, prompt>>

Chat(id, order) ==
    [id |-> id, order |-> order, title |-> "t0", is_pinned |-> FALSE,
     is_marked_as_unread |-> FALSE, unread_count |-> 0,
     last_message |-> None, mute_for |-> 0]

Call(f, a, b) == [f |-> f, a |-> a, b |-> b]
\* The record of an operation: its name, the chat it concerns, the selected
\* chat and the cursor before it, and whether it repeats the operation before.
Op(op, chat_id) ==
    [op |-> op, chat_id |-> chat_id,
     sel |-> id_by_index(chats, current_chat), cur |-> current_chat,
     again |-> (last.op = op /\ last.chat_id = chat_id)]

Draw(pane, locked) == [pane |-> pane, locked |-> locked]

\* refresh_msgs(): draws the message pane unless there is no current chat.
\* It takes no lock itself: `locked` tells whether the caller holds it.
refresh_msgs(cs, cur, locked) ==
    IF id_by_index(cs, cur) = None THEN <<>> ELSE <<Draw("msgs", locked)>>

\* render(): under the lock, the chat pane, the message pane, the status line.
render(cs, cur) ==
    <<Draw("chats", TRUE)>> \o refresh_msgs(cs, cur, TRUE) \o <<Draw("status", TRUE)>>

\* render(): selected_chat, the row of the chat pane that is highlighted.
selected_chat(cur, h) ==
    IF cur < h - MSGS_LEFT_SCROLL_THRESHOLD THEN cur
    ELSE h - MSGS_LEFT_SCROLL_THRESHOLD

\* update_status(level, msg): under the lock, the status line.
update_status == <<Draw("status", TRUE)>>

RECURSIVE IndexOf(_, _, _)
\* 0-based index of the first chat with this id at or after position i, else -1.
IndexOf(cs, chat_id, i) ==
    IF i > Len(cs) THEN -1
    ELSE IF cs[i].id = chat_id THEN i - 1
    ELSE IndexOf(cs, chat_id, i + 1)

\* Faulty variant: the cursor is left where it was.
refresh_cursor_stale(cs, cur, current_chat_id) == cur

\* Faulty variant: the scan counts positions from one.
refresh_cursor_one_based(cs, cur, current_chat_id) ==
    IF current_chat_id = None \/ IndexOf(cs, current_chat_id, 1) = -1 THEN cur
    ELSE IndexOf(cs, current_chat_id, 1) + 1

\* The cursor after _refresh_current_chat(current_chat_id): the index of the
\* first chat with that id, unchanged when there is none.
refresh_cursor(cs, cur, current_chat_id) ==
    IF current_chat_id = None \/ IndexOf(cs, current_chat_id, 1) = -1 THEN cur
    ELSE IndexOf(cs, current_chat_id, 1)

\* _refresh_current_chat(current_chat_id): nothing for None, else re-resolve
\* the cursor and render.
refresh_current_chat(cs, current_chat_id) ==
    /\ current_chat' = refresh_cursor(cs, current_chat, current_chat_id)
    /\ drawn' = IF current_chat_id = None THEN <<>>
                ELSE render(cs, refresh_cursor(cs, current_chat, current_chat_id))

\* One more operation, recorded.
Count(op, chat_id) ==
    /\ steps < MaxSteps
    /\ steps' = steps + 1
    /\ last' = Op(op, chat_id)

\* An operation that does not resize.
Tick(op, chat_id) ==
    /\ Count(op, chat_id)
    /\ UNCHANGED <<chat_size, resized>>

\* A handler body that raised inside @handle_exception: logged and swallowed.
Swallowed ==
    /\ UNCHANGED <<chats, current_chat, msgs, downloads, mode, ended_by>>
    /\ calls' = <<>> /\ drawn' = <<>> /\ notified' = <<>>

\* Faulty variant: the selected id is read after the chat list was re-ordered.
chat_handler_late_read(op, chat_id, updates) ==
    /\ Tick(op, chat_id)
    /\ IF ~HasChat(chats, chat_id) THEN Swallowed
       ELSE LET cs == update_chat(chats, chat_id, updates)
                current_chat_id == id_by_index(cs, current_chat)
            IN /\ chats' = cs
               /\ refresh_current_chat(cs, current_chat_id)
               /\ calls' = <<>> /\ notified' = <<>>
               /\ UNCHANGED <<msgs, downloads, mode, ended_by>>

\* The shared shape of the chat handlers: read the selected id, merge the
\* fields into the chat (a lookup failure for a chat the list does not hold is
\* swallowed), re-resolve the cursor and render.
chat_handler(op, chat_id, updates) ==
    /\ Tick(op, chat_id)
    /\ IF ~HasChat(chats, chat_id) THEN Swallowed
       ELSE LET current_chat_id == id_by_index(chats, current_chat)
                cs == update_chat(chats, chat_id, updates)
            IN /\ chats' = cs
               /\ refresh_current_chat(cs, current_chat_id)
               /\ calls' = <<>> /\ notified' = <<>>
               /\ UNCHANGED <<msgs, downloads, mode, ended_by>>

\* An event without a field its handler reads before its first call into the
\* Store (update["chat_id"], update["order"], update["message"], update["file"],
\* ...): the subscript raises, @handle_exception logs and swallows.
malformed_event(op) ==
    /\ Tick(op, None)
    /\ Swallowed

update_chat_order(chat_id, order) ==
    chat_handler("updateChatOrder", chat_id, [order |-> order])

update_chat_title(chat_id, title) ==
    chat_handler("updateChatTitle", chat_id, [title |-> title])

update_chat_marked_as_unread(chat_id, is_marked_as_unread) ==
    chat_handler("updateChatIsMarkedAsUnread", chat_id,
                 [is_marked_as_unread |-> is_marked_as_unread])

update_chat_is_pinned(chat_id, is_pinned, order) ==
    chat_handler("updateChatIsPinned", chat_id,
                 [is_pinned |-> is_pinned, order |-> order])

update_chat_read_inbox(chat_id, unread_count) ==
    chat_handler("updateChatReadInbox", chat_id, [unread_count |-> unread_count])

update_chat_draft_msg(chat_id, order) ==
    chat_handler("updateChatDraftMessage", chat_id, [order |-> order])

update_chat_last_msg(chat_id, message, order) ==
    chat_handler("updateChatLastMessage", chat_id,
                 [last_message |-> message, order |-> order])

\* update_chat_notification_settings: merge, then render() with no cursor
\* re-resolution.
update_chat_notification_settings(chat_id, mute_for) ==
    /\ Tick("updateChatNotificationSettings", chat_id)
    /\ IF ~HasChat(chats, chat_id) THEN Swallowed
       ELSE LET cs == update_chat(chats, chat_id, [mute_for |-> mute_for])
            IN /\ chats' = cs
               /\ drawn' = render(cs, current_chat)
               /\ calls' = <<>> /\ notified' = <<>>
               /\ UNCHANGED <<current_chat, msgs, downloads, mode, ended_by>>

\* The Store takes the message (bound of the model: MaxMsgs per chat).
Room(chat_id, msg_id) ==
    HasMsg(msgs[chat_id], msg_id) \/ Len(msgs[chat_id]) < MaxMsgs

\* download(file_id, chat_id, msg_id): downloads[file_id] = (chat_id, msg_id).
download(dl, file_id, chat_id, msg_id) ==
    {d \in dl : d[1] # file_id} \cup {<<file_id, chat_id, msg_id>>}

\* _notify_for_message, the mute test: `chat` is the chat the scan stopped at,
\* which is the last chat of the list when no chat has the id (the loop
\* variable outlives the loop), and None only for an empty list.
notify_muted(cs, chat_id) ==
    IF cs = <<>> THEN FALSE
    ELSE LET chat == IF HasChat(cs, chat_id)
                     THEN cs[IndexOf(cs, chat_id, 1) + 1]
                     ELSE cs[Len(cs)]
         IN chat.mute_for # 0

\* _notify_for_message(chat_id, msg): the notifications raised. Reading
\* msg["sender_user_id"] of a record without it raises, which ends the handler.
notify_for_message(cs, chat_id, msg) ==
    IF notify_muted(cs, chat_id) THEN <<>>
    ELSE IF msg.sender_user_id = Absent THEN <<>>
    ELSE IF is_me(msg.sender_user_id) THEN <<>>
    ELSE <<[chat_id |-> chat_id, sender |-> msg.sender_user_id]>>

\* Faulty variant: the message pane is refreshed whichever chat the message is in.
refresh_always(cs, cur, chat_id) == refresh_msgs(cs, cur, FALSE)

\* The message handlers' redraw: refresh_msgs(), without the lock, if the
\* message's chat is the selected chat.
refresh_if_current(cs, cur, chat_id) ==
    IF id_by_index(cs, cur) = chat_id THEN refresh_msgs(cs, cur, FALSE) ELSE <<>>

\* The size test of the automatic download.
auto_download(msg) ==
    msg.content.file_id # None /\ msg.content.size <= max_download_size

update_new_msg(msg) ==
    /\ Room(msg.chat_id, msg.id)
    /\ Tick("updateNewMessage", msg.chat_id)
    /\ msgs' = add_message(msgs, msg.chat_id, msg)
    /\ drawn' = refresh_if_current(chats, current_chat, msg.chat_id)
    /\ IF auto_download(msg)
       THEN /\ downloads' = download(downloads, msg.content.file_id, msg.chat_id, msg.id)
            /\ calls' = <<Call("download_file", msg.content.file_id, None)>>
       ELSE /\ downloads' = downloads
            /\ calls' = <<>>
    /\ notified' = notify_for_message(chats, msg.chat_id, msg)
    /\ UNCHANGED <<chats, current_chat, mode, ended_by>>

update_msg_content(chat_id, message_id, new_content) ==
    /\ Tick("updateMessageContent", chat_id)
    /\ msgs' = store_update_msg_content(msgs, chat_id, message_id, new_content)
    /\ drawn' = refresh_if_current(chats, current_chat, chat_id)
    /\ calls' = <<>> /\ notified' = <<>>
    /\ UNCHANGED <<chats, current_chat, downloads, mode, ended_by>>

update_msg_send_succeeded(msg, old_message_id) ==
    /\ Room(msg.chat_id, msg.id)
    /\ Tick("updateMessageSendSucceeded", msg.chat_id)
    /\ msgs' = remove_message(add_message(msgs, msg.chat_id, msg),
                              msg.chat_id, old_message_id)
    /\ drawn' = refresh_if_current(chats, current_chat, msg.chat_id)
    /\ calls' = <<>> /\ notified' = <<>>
    /\ UNCHANGED <<chats, current_chat, downloads, mode, ended_by>>

Tracked(dl, file_id) == \E d \in dl : d[1] = file_id
Entry(dl, file_id) == CHOOSE d \in dl : d[1] = file_id

\* Faulty variant: an untracked file id refreshes the message pane.
update_file_unknown_refreshes(file_id, completed) ==
    /\ Tick("updateFile", IF Tracked(downloads, file_id)
                          THEN Entry(downloads, file_id)[2] ELSE None)
    /\ calls' = <<>> /\ notified' = <<>>
    /\ UNCHANGED <<chats, current_chat, mode, ended_by, msgs, downloads>>
    /\ drawn' = refresh_msgs(chats, current_chat, FALSE)

\* update_file: an untracked file id is logged and ignored; for the tracked
\* message, if the Store still holds it, set its local state, refresh the
\* message pane and drop the entry once the file is completely downloaded.
update_file(file_id, completed) ==
    /\ Tick("updateFile", IF Tracked(downloads, file_id)
                          THEN Entry(downloads, file_id)[2] ELSE None)
    /\ calls' = <<>> /\ notified' = <<>>
    /\ UNCHANGED <<chats, current_chat, mode, ended_by>>
    /\ IF ~Tracked(downloads, file_id)
       THEN /\ drawn' = <<>>
            /\ UNCHANGED <<msgs, downloads>>
       ELSE LET chat_id == Entry(downloads, file_id)[2]
                msg_id == Entry(downloads, file_id)[3]
            IN IF ~HasMsg(msgs[chat_id], msg_id)
               THEN /\ drawn' = <<>>
                    /\ UNCHANGED <<msgs, downloads>>
               ELSE /\ msgs' = [msgs EXCEPT ![chat_id] = [i \in 1..Len(@) |->
                                   IF @[i].id = msg_id
                                   THEN [@[i] EXCEPT !.content.downloaded = completed]
                                   ELSE @[i]]]
                    /\ drawn' = refresh_msgs(chats, current_chat, FALSE)
                    /\ downloads' = IF completed
                                    THEN {d \in downloads : d[1] # file_id}
                                    ELSE downloads

\* ------------------------------------------------------- the input loops
Surface(op, ratio) == [op |-> op, ratio |-> ratio]

\* Faulty variant: the panes are rendered before the screen is erased.
resize_render_first(size) ==
    <<Surface("render", 0),
      Surface("stdscr.erase", 0), Surface("stdscr.noutrefresh", 0),
      Surface("chats.resize", size), Surface("msgs.resize", 100 - size),
      Surface("status.resize", 0)>>

\* resize(): erase the screen, lay the panes out with chat_size and
\* 1 - chat_size, then render().
resize(size) ==
    <<Surface("stdscr.erase", 0), Surface("stdscr.noutrefresh", 0),
      Surface("chats.resize", size), Surface("msgs.resize", 100 - size),
      Surface("status.resize", 0),
      Surface("render", 0)>>

\* resize_handler(signum, frame): endwin(), stdscr.refresh() (curses reads
\* the new geometry), then resize().
resize_handler_calls(size) ==
    <<Surface("endwin", 0), Surface("stdscr.refresh", 0)>> \o resize(size)

\* A key action that changes nothing in the Store and the loop.
KeyFrame ==
    /\ UNCHANGED <<msgs, downloads>>
    /\ notified' = <<>>

Selected == chats[current_chat + 1]

\* run() -> handle_chats(): chat_size = 0.5, resize(), then the loop.
handle_chats_enter ==
    /\ mode = "start"
    /\ mode' = "chats"
    /\ last' = Op("handle_chats", None)
    /\ chat_size' = ChatListRatio
    /\ resized' = resize(ChatListRatio)
    /\ drawn' = render(chats, current_chat)
    /\ calls' = <<>>
    /\ KeyFrame
    /\ UNCHANGED <<chats, current_chat, ended_by, steps>>

\* A navigation key: move the cursor, render if it moved.
nav(op, new) ==
    /\ mode = "chats"
    /\ Tick(op, None)
    /\ current_chat' = new
    /\ drawn' = IF new # current_chat THEN render(chats, new) ELSE <<>>
    /\ calls' = <<>>
    /\ KeyFrame
    /\ UNCHANGED <<chats, mode, ended_by>>

key_j(repeat_factor) == nav("j", next_chat(chats, current_chat, repeat_factor))
key_k(repeat_factor) == nav("k", prev_chat(chats, current_chat, repeat_factor))
key_J == nav("J", next_chat(chats, current_chat, BigStep))
key_K == nav("K", prev_chat(chats, current_chat, BigStep))
key_gg == nav("gg", first_chat(chats, current_chat))

\* u: toggle_chat_is_marked_as_unread(chat_id, not is_marked_as_unread)
key_u ==
    /\ mode = "chats"
    /\ Tick("u", Selected.id)
    /\ calls' = <<Call("toggle_chat_is_marked_as_unread", Selected.id,
                       ~Selected.is_marked_as_unread)>>
    /\ drawn' = <<>>
    /\ KeyFrame
    /\ UNCHANGED <<chats, current_chat, mode, ended_by>>

\* p: toggle_chat_is_pinned(chat_id, not is_pinned)
key_p ==
    /\ mode = "chats"
    /\ Tick("p", Selected.id)
    /\ calls' = <<Call("toggle_chat_is_pinned", Selected.id, ~Selected.is_pinned)>>
    /\ drawn' = <<>>
    /\ KeyFrame
    /\ UNCHANGED <<chats, current_chat, mode, ended_by>>

\* r: view_messages(chat_id, [last_message.id]); subscripting a chat without a
\* last message raises, the error leaves handle_chats and run() logs it.
key_r ==
    /\ mode = "chats"
    /\ Tick("r", Selected.id)
    /\ drawn' = <<>>
    /\ KeyFrame
    /\ UNCHANGED <<chats, current_chat>>
    /\ IF Selected.last_message = None
       THEN /\ calls' = <<>>
            /\ mode' = "ended"
            /\ ended_by' = "error"
       ELSE /\ calls' = <<Call("view_messages", Selected.id, Selected.last_message)>>
            /\ UNCHANGED <<mode, ended_by>>

\* Faulty variant: the key always requests the sentinel.
mute_toggle_never_unmutes(mute_for) == MuteForever

\* The mute_for the m key requests.
mute_toggle(mute_for) == IF mute_for # 0 THEN 0 ELSE MuteForever

\* The Store's record after the m key: notification_settings is the Store's
\* own dict, so the assignment to its mute_for is a write to the Store.
mute_in_place(cs, cur) ==
    [cs EXCEPT ![cur + 1].mute_for = mute_toggle(@)]

\* m: set_chat_nottification_settings(chat_id, notification_settings)
key_m ==
    /\ mode = "chats"
    /\ Tick("m", Selected.id)
    /\ chats' = mute_in_place(chats, current_chat)
    /\ calls' = <<Call("set_chat_nottification_settings", Selected.id,
                       mute_toggle(Selected.mute_for))>>
    /\ drawn' = <<>>
    /\ KeyFrame
    /\ UNCHANGED <<current_chat, mode, ended_by>>

\* bp: breakpoint() inside the suspension scope.
key_bp ==
    /\ mode = "chats"
    /\ Tick("bp", None)
    /\ calls' = <<Call("suspend", None, None), Call("breakpoint", None, None)>>
    /\ drawn' = <<>>
    /\ KeyFrame
    /\ UNCHANGED <<chats, current_chat, mode, ended_by>>

\* l: handle_msgs(): chat_size = 0.2, resize(), then the message loop.
key_l ==
    /\ mode = "chats"
    /\ Count("l", Selected.id)
    /\ chat_size' = MsgListRatio
    /\ resized' = resize(MsgListRatio)
    /\ mode' = "msgs"
    /\ drawn' = render(chats, current_chat)
    /\ calls' = <<>>
    /\ KeyFrame
    /\ UNCHANGED <<chats, current_chat, ended_by>>

\* q in either mode: QUIT ends handle_msgs and handle_chats.
key_q ==
    /\ mode \in {"chats", "msgs"}
    /\ Tick("q", None)
    /\ mode' = "ended"
    /\ ended_by' = "quit"
    /\ drawn' = <<>> /\ calls' = <<>>
    /\ KeyFrame
    /\ UNCHANGED <<chats, current_chat>>

\* h in message-list mode: BACK; handle_chats sets chat_size = 0.5, resize().
msgs_key_h ==
    /\ mode = "msgs"
    /\ Count("h", None)
    /\ chat_size' = ChatListRatio
    /\ resized' = resize(ChatListRatio)
    /\ mode' = "chats"
    /\ drawn' = render(chats, current_chat)
    /\ calls' = <<>>
    /\ KeyFrame
    /\ UNCHANGED <<chats, current_chat, ended_by>>

\* --------------------------------------------------- message-list mode keys
\* What the user may type at a status-line prompt: nothing, a path that names
\* no file, a path that names a file.
Paths == {"", "nofile", "file"}
\* What the user may leave in the editor's file or type as a short message.
Texts == {"", "text"}
\* The answers to the yes/no prompt of the voice recording.
Answers == {"y", "n"}

\* os.path.isfile(file_path)
isfile(file_path) == file_path = "file"

\* The Store's message cursor (tg.models is not part of the sources): the
\* index is checked against the length of the list at the time of use.
cursor(mm, chat_id, idx) ==
    IF idx[chat_id] > Len(mm[chat_id]) - 1 THEN Len(mm[chat_id]) - 1 ELSE idx[chat_id]

\* model.current_msg: the message under the cursor of the selected chat.
current_msg == msgs[Selected.id][cursor(msgs, Selected.id, msg_idx) + 1]

\* The actions on the current message are modelled where there is one.
HasCurrentMsg == msgs[Selected.id] # <<>>

\* MsgProxy.is_text
is_text(msg) == msg.content.type = "text"

\* A key action of message-list mode that leaves the Store and the loop alone.
MsgsFrame ==
    /\ mode = "msgs"
    /\ notified' = <<>>
    /\ UNCHANGED <<chats, current_chat, msgs, downloads, mode, ended_by, msg_idx>>

\* Faulty variant: the sender of the message is not looked at.
edit_rejection_any_sender(msg) ==
    IF ~is_text(msg) THEN "Error: You can edit text messages only!" ELSE ""

\* edit_msg(), the two tests before the editor: the error presented, "" if none.
edit_rejection(msg) ==
    IF ~is_me(msg.sender_user_id) THEN "Error: You can edit only your messages!"
    ELSE IF ~is_text(msg) THEN "Error: You can edit text messages only!"
    ELSE ""

\* e: edit_msg(). After the two tests, the editor runs inside the suspension
\* scope; a non-empty result is sent with edit_message and "Message edited"
\* is presented (inside the scope).
edit_msg(text) ==
    /\ MsgsFrame
    /\ HasCurrentMsg
    /\ Tick("e", Selected.id)
    /\ IF edit_rejection(current_msg) # ""
       THEN /\ calls' = <<>>
            /\ status_msg' = edit_rejection(current_msg)
            /\ drawn' = update_status
       ELSE IF text # ""
       THEN /\ calls' = <<Call("suspend", None, None), Call("editor", None, None),
                          Call("edit_message", Selected.id, current_msg.id)>>
            /\ status_msg' = "Info: Message edited"
            /\ drawn' = update_status
       ELSE /\ calls' = <<Call("suspend", None, None), Call("editor", None, None)>>
            /\ status_msg' = status_msg
            /\ drawn' = <<>>

\* I / A: write_long_msg(): the editor inside the suspension scope, then
\* send_message and "Message sent" for a non-empty text.
write_long_msg(text) ==
    /\ MsgsFrame
    /\ Tick("I", Selected.id)
    /\ IF text # ""
       THEN /\ calls' = <<Call("suspend", None, None), Call("editor", None, None),
                          Call("send_message", Selected.id, None)>>
            /\ status_msg' = "Info: Message sent"
            /\ drawn' = update_status
       ELSE /\ calls' = <<Call("suspend", None, None), Call("editor", None, None)>>
            /\ status_msg' = status_msg
            /\ drawn' = <<>>

\* i / a: a short message from the status-line prompt.
msgs_key_i(text) ==
    /\ MsgsFrame
    /\ Tick("i", Selected.id)
    /\ drawn' = update_status
    /\ IF text # ""
       THEN /\ calls' = <<Call("send_message", Selected.id, None)>>
            /\ status_msg' = "Info: Message sent"
       ELSE /\ calls' = <<>>
            /\ status_msg' = "Info: Message wasn't sent"

\* sd, sp, sa: send_file(send_file_fun) with the path typed at the prompt.
send_file(op, send_file_fun, file_path) ==
    /\ MsgsFrame
    /\ Tick(op, Selected.id)
    /\ IF file_path # "" /\ isfile(file_path)
       THEN /\ calls' = <<Call(send_file_fun, id_by_index(chats, current_chat), None)>>
            /\ status_msg' = "Info: File sent"
            /\ drawn' = update_status
       ELSE /\ calls' = <<>>
            /\ status_msg' = status_msg
            /\ drawn' = <<>>

\* sv: the same tests, then send_video; nothing is presented.
msgs_key_sv(file_path) ==
    /\ MsgsFrame
    /\ Tick("sv", Selected.id)
    /\ status_msg' = status_msg
    /\ drawn' = <<>>
    /\ calls' = IF file_path # "" /\ isfile(file_path)
                THEN <<Call("send_video", id_by_index(chats, current_chat), None)>>
                ELSE <<>>

\* v: send_voice(): the recorder inside the suspension scope; after the scope,
\* the yes/no prompt; the recording is sent if the answer is yes and the file
\* is there.
send_voice(resp, recorded) ==
    /\ MsgsFrame
    /\ Tick("v", Selected.id)
    /\ IF resp = "y" /\ recorded
       THEN /\ calls' = <<Call("suspend", None, None), Call("record", None, None),
                          Call("resume", None, None),
                          Call("send_voice", id_by_index(chats, current_chat), None)>>
            /\ status_msg' = "Info: Sent voice msg"
            /\ drawn' = update_status
       ELSE /\ calls' = <<Call("suspend", None, None), Call("record", None, None),
                          Call("resume", None, None)>>
            /\ status_msg' = status_msg
            /\ drawn' = <<>>

\* l: open_current_msg(): a text message, or a file that is local, is opened
\* in the external viewer inside the suspension scope.
open_current_msg ==
    /\ MsgsFrame
    /\ HasCurrentMsg
    /\ Tick("open", Selected.id)
    /\ status_msg' = status_msg
    /\ drawn' = <<>>
    /\ calls' = IF is_text(current_msg) \/ current_msg.content.downloaded
                THEN <<Call("suspend", None, None), Call("open_file", None, None)>>
                ELSE <<>>

\* D: download_current_file(), then "File downloaded" whatever was done.
download_current_file ==
    /\ mode = "msgs"
    /\ HasCurrentMsg
    /\ Tick("D", Selected.id)
    /\ notified' = <<>>
    /\ status_msg' = "Info: File downloaded"
    /\ drawn' = update_status
    /\ IF current_msg.content.file_id # None
       THEN /\ downloads' = download(downloads, current_msg.content.file_id,
                                     current_msg.chat_id, current_msg.id)
            /\ calls' = <<Call("download_file", current_msg.content.file_id, None)>>
       ELSE /\ downloads' = downloads
            /\ calls' = <<>>
    /\ UNCHANGED <<chats, current_chat, msgs, mode, ended_by, msg_idx>>

\* dd: model.delete_msg() (the Store drops the current message and asks the
\* backend to delete it), refresh_msgs(), "Message deleted".
msgs_key_dd ==
    /\ mode = "msgs"
    /\ HasCurrentMsg
    /\ Tick("dd", Selected.id)
    /\ notified' = <<>>
    /\ msgs' = remove_message(msgs, Selected.id, current_msg.id)
    /\ calls' = <<Call("delete_message", Selected.id, current_msg.id)>>
    /\ status_msg' = "Info: Message deleted"
    /\ drawn' = refresh_msgs(chats, current_chat, FALSE) \o update_status
    /\ UNCHANGED <<chats, current_chat, downloads, mode, ended_by, msg_idx>>

\* j, k (and J, K with a step of ten): the message cursor moves (next_msg,
\* prev_msg); refresh_msgs(), without the lock, if it moved.
msgs_nav(op, new) ==
    /\ mode = "msgs"
    /\ Tick(op, Selected.id)
    /\ notified' = <<>>
    /\ msg_idx' = [msg_idx EXCEPT ![Selected.id] = new]
    /\ drawn' = IF new # msg_idx[Selected.id]
                THEN refresh_msgs(chats, current_chat, FALSE) ELSE <<>>
    /\ calls' = <<>>
    /\ UNCHANGED <<chats, current_chat, msgs, downloads, mode, ended_by, status_msg>>

\* next_msg(step) / prev_msg(step): the new message cursor (clamped).
next_msg(mm, chat_id, idx, step) ==
    IF cursor(mm, chat_id, idx) + step > Len(mm[chat_id]) - 1
    THEN IF Len(mm[chat_id]) = 0 THEN 0 ELSE Len(mm[chat_id]) - 1
    ELSE cursor(mm, chat_id, idx) + step
prev_msg(mm, chat_id, idx, step) ==
    IF cursor(mm, chat_id, idx) - step < 0 THEN 0 ELSE cursor(mm, chat_id, idx) - step

msgs_key_j(repeat_factor) ==
    msgs_nav("mj", next_msg(msgs, Selected.id, msg_idx, repeat_factor))
msgs_key_k(repeat_factor) ==
    msgs_nav("mk", prev_msg(msgs, Selected.id, msg_idx, repeat_factor))

\* ] and [: next_chat() / prev_chat() from message-list mode, render if moved.
msgs_chat_nav(op, new) ==
    /\ mode = "msgs"
    /\ Tick(op, None)
    /\ notified' = <<>>
    /\ current_chat' = new
    /\ drawn' = IF new # current_chat THEN render(chats, new) ELSE <<>>
    /\ calls' = <<>>
    /\ UNCHANGED <<chats, msgs, downloads, mode, ended_by, status_msg, msg_idx>>

msgs_key_next_chat == msgs_chat_nav("]", next_chat(chats, current_chat, 1))
msgs_key_prev_chat == msgs_chat_nav("[", prev_chat(chats, current_chat, 1))

\* /, gg, r in message-list mode: nothing yet.
msgs_key_pass ==
    /\ MsgsFrame
    /\ Tick("pass", None)
    /\ calls' = <<>> /\ drawn' = <<>>
    /\ status_msg' = status_msg

\* resize_handler(signum, frame): SIGWINCH, delivered on the main context.
resize_handler ==
    /\ mode \in {"chats", "msgs"}
    /\ Count("resize", None)
    /\ resized' = resize_handler_calls(chat_size)
    /\ drawn' = render(chats, current_chat)
    /\ calls' = <<>>
    /\ notified' = <<>>
    /\ UNCHANGED <<chats, current_chat, msgs, downloads, mode, ended_by,
                   chat_size, status_msg, msg_idx>>


Init ==
    /\ chats = SortChats(<<Chat(1, 5), Chat(2, 10)>>)
    /\ current_chat \in {0, 1}
    /\ msgs = [c \in ChatIds |-> <<>>]
    /\ downloads = {}
    /\ mode = "start"
    /\ ended_by = "none"
    /\ last = [op |-> "init", chat_id |-> None, sel |-> None, cur |-> 0,
               again |-> FALSE]
    /\ calls = <<>>
    /\ drawn = <<>>
    /\ notified = <<>>
    /\ steps = 0
    /\ chat_size = ChatListRatio
    /\ resized = <<>>
    /\ status_msg = ""
    /\ msg_idx = [c \in ChatIds |-> 0]
    /\ page_size = MaxRows
    /\ lock = "free"
    /\ todo = [c \in Contexts |-> <<>>]
    /\ drawing = {}
    /\ suspended = FALSE
    /\ seen = [ids |-> <<>>, chat_id |-> None, pending |-> <<>>]

\* The chat events the backend-notification context may deliver.
Update ==
    \/ \E c \in EventChats, o \in Orders : update_chat_order(c, o)
    \/ \E c \in EventChats, t \in Titles : update_chat_title(c, t)
    \/ \E c \in EventChats, b \in BOOLEAN : update_chat_marked_as_unread(c, b)
    \/ \E c \in EventChats, b \in BOOLEAN, o \in Orders : update_chat_is_pinned(c, b, o)
    \/ \E c \in EventChats, n \in {0, 1} : update_chat_read_inbox(c, n)
    \/ \E c \in EventChats, o \in Orders : update_chat_draft_msg(c, o)
    \/ \E c \in EventChats, m \in {None, 1}, o \in Orders :
          update_chat_last_msg(c, m, o)
    \/ \E c \in EventChats, mf \in {0, MuteForever} :
          update_chat_notification_settings(c, mf)

\* The message and file events it may deliver.
MsgUpdate ==
    \/ \E m \in Messages : update_new_msg(m)
    \/ \E c \in EventChats, i \in MsgIds, nc \in Contents : update_msg_content(c, i, nc)
    \/ \E m \in Messages, old \in MsgIds :
          m.sender_user_id = Me /\ old # m.id /\ update_msg_send_succeeded(m, old)
    \/ \E f \in FileIds, done \in BOOLEAN : update_file(f, done)

\* The steps the main context may take.
Key ==
    \/ handle_chats_enter
    \/ \E r \in Repeats : key_j(r)
    \/ \E r \in Repeats : key_k(r)
    \/ key_J
    \/ key_K
    \/ key_gg
    \/ key_u
    \/ key_p
    \/ key_r
    \/ key_m
    \/ key_l
    \/ key_q
    \/ msgs_key_h

\* Sequential semantics: every operation runs to completion, its draw calls
\* included, before the next one starts.
Next ==
    \/ \E c \in EventChats, o \in Orders :
          update_chat_order(c, o) /\ UNCHANGED rest
    \/ \E c \in EventChats, t \in Titles :
          update_chat_title(c, t) /\ UNCHANGED rest
    \/ \E c \in EventChats, b \in BOOLEAN :
          update_chat_marked_as_unread(c, b) /\ UNCHANGED rest
    \/ \E c \in EventChats, b \in BOOLEAN, o \in Orders :
          update_chat_is_pinned(c, b, o) /\ UNCHANGED rest
    \/ \E c \in EventChats, n \in {0, 1} :
          update_chat_read_inbox(c, n) /\ UNCHANGED rest
    \/ \E c \in EventChats, o \in Orders :
          update_chat_draft_msg(c, o) /\ UNCHANGED rest
    \/ \E c \in EventChats, m \in {None, 1}, o \in Orders :
          update_chat_last_msg(c, m, o) /\ UNCHANGED rest
    \/ \E c \in EventChats, mf \in {0, MuteForever} :
          update_chat_notification_settings(c, mf) /\ UNCHANGED rest
    \/ \E m \in Messages :
          update_new_msg(m) /\ UNCHANGED rest
    \/ \E c \in EventChats, i \in MsgIds, nc \in Contents :
          update_msg_content(c, i, nc) /\ UNCHANGED rest
    \/ \E m \in Messages, old \in MsgIds :
          /\ m.sender_user_id = Me /\ old # m.id
          /\ update_msg_send_succeeded(m, old) /\ UNCHANGED rest
    \/ \E f \in FileIds, done \in BOOLEAN :
          update_file(f, done) /\ UNCHANGED rest
    \/ handle_chats_enter /\ UNCHANGED rest
    \/ \E r \in Repeats : key_j(r) /\ UNCHANGED rest
    \/ \E r \in Repeats : key_k(r) /\ UNCHANGED rest
    \/ key_J /\ UNCHANGED rest
    \/ key_K /\ UNCHANGED rest
    \/ key_gg /\ UNCHANGED rest
    \/ key_u /\ UNCHANGED rest
    \/ key_p /\ UNCHANGED rest
    \/ key_r /\ UNCHANGED rest
    \/ key_m /\ UNCHANGED rest
    \/ key_l /\ UNCHANGED rest
    \/ key_q /\ UNCHANGED rest
    \/ msgs_key_h /\ UNCHANGED rest

Spec == Init /\ [][Next]_vars

\* The names of the events, by what their handlers concern.
ChatOps == {"updateChatOrder", "updateChatTitle", "updateChatIsMarkedAsUnread",
            "updateChatIsPinned", "updateChatReadInbox", "updateChatDraftMessage",
            "updateChatLastMessage", "updateChatNotificationSettings"}
ReorderOps == {"updateChatOrder", "updateChatIsPinned", "updateChatLastMessage",
               "updateChatDraftMessage", "updateChatTitle", "updateChatReadInbox"}
MsgOps == {"updateNewMessage", "updateMessageContent", "updateMessageSendSucceeded"}
UpdateOps == ChatOps \cup MsgOps \cup {"updateFile"}

\* The dispatcher alone: every kind of event, well-formed or not, each
\* handled to completion.
NextEvents ==
    \/ \E c \in EventChats, o \in Orders :
          update_chat_order(c, o) /\ UNCHANGED rest
    \/ \E c \in EventChats, t \in Titles :
          update_chat_title(c, t) /\ UNCHANGED rest
    \/ \E c \in EventChats, b \in BOOLEAN :
          update_chat_marked_as_unread(c, b) /\ UNCHANGED rest
    \/ \E c \in EventChats, b \in BOOLEAN, o \in Orders :
          update_chat_is_pinned(c, b, o) /\ UNCHANGED rest
    \/ \E c \in EventChats, n \in {0, 1} :
          update_chat_read_inbox(c, n) /\ UNCHANGED rest
    \/ \E c \in EventChats, o \in Orders :
          update_chat_draft_msg(c, o) /\ UNCHANGED rest
    \/ \E c \in EventChats, m \in {None, 1}, o \in Orders :
          update_chat_last_msg(c, m, o) /\ UNCHANGED rest
    \/ \E c \in EventChats, mf \in {0, MuteForever} :
          update_chat_notification_settings(c, mf) /\ UNCHANGED rest
    \/ \E m \in Messages \cup SenderlessMessages :
          update_new_msg(m) /\ UNCHANGED rest
    \/ \E c \in EventChats, i \in MsgIds, nc \in Contents :
          update_msg_content(c, i, nc) /\ UNCHANGED rest
    \/ \E m \in Messages, old \in MsgIds :
          /\ m.sender_user_id = Me /\ old # m.id
          /\ update_msg_send_succeeded(m, old) /\ UNCHANGED rest
    \/ \E f \in FileIds, done \in BOOLEAN :
          update_file(f, done) /\ UNCHANGED rest
    \/ \E op \in UpdateOps : malformed_event(op) /\ UNCHANGED rest

SpecEvents == Init /\ [][NextEvents]_vars

\* The input state machine with every key of the two modes, the resize
\* signal, and the new-message event that fills the message lists; every
\* operation runs to completion.
NextInput ==
    \/ \E m \in Messages : update_new_msg(m) /\ UNCHANGED rest
    \/ handle_chats_enter /\ UNCHANGED rest
    \/ \E r \in Repeats : key_j(r) /\ UNCHANGED rest
    \/ \E r \in Repeats : key_k(r) /\ UNCHANGED rest
    \/ key_J /\ UNCHANGED rest
    \/ key_K /\ UNCHANGED rest
    \/ key_gg /\ UNCHANGED rest
    \/ key_u /\ UNCHANGED rest
    \/ key_p /\ UNCHANGED rest
    \/ key_r /\ UNCHANGED rest
    \/ key_m /\ UNCHANGED rest
    \/ key_bp /\ UNCHANGED rest
    \/ key_l /\ UNCHANGED rest
    \/ key_q /\ UNCHANGED rest
    \/ msgs_key_h /\ UNCHANGED rest
    \/ resize_handler /\ UNCHANGED <<conc, page>>
    \/ \E text \in Texts : edit_msg(text) /\ UNCHANGED <<conc, page>>
    \/ \E text \in Texts : write_long_msg(text) /\ UNCHANGED <<conc, page>>
    \/ \E text \in Texts : msgs_key_i(text) /\ UNCHANGED <<conc, page>>
    \/ \E file_path \in Paths :
          send_file("sd", "send_doc", file_path) /\ UNCHANGED <<conc, page>>
    \/ \E file_path \in Paths :
          send_file("sp", "send_photo", file_path) /\ UNCHANGED <<conc, page>>
    \/ \E file_path \in Paths :
          send_file("sa", "send_audio", file_path) /\ UNCHANGED <<conc, page>>
    \/ \E file_path \in Paths : msgs_key_sv(file_path) /\ UNCHANGED <<conc, page>>
    \/ \E resp \in Answers, recorded \in BOOLEAN :
          send_voice(resp, recorded) /\ UNCHANGED <<conc, page>>
    \/ open_current_msg /\ UNCHANGED <<conc, page>>
    \/ download_current_file /\ UNCHANGED <<conc, page>>
    \/ msgs_key_dd /\ UNCHANGED <<conc, page>>
    \/ \E r \in Repeats : msgs_key_j(r) /\ UNCHANGED <<conc, page>>
    \/ \E r \in Repeats : msgs_key_k(r) /\ UNCHANGED <<conc, page>>
    \/ msgs_key_next_chat /\ UNCHANGED <<conc, page>>
    \/ msgs_key_prev_chat /\ UNCHANGED <<conc, page>>
    \/ msgs_key_pass /\ UNCHANGED <<conc, page>>

SpecInput == Init /\ [][NextInput]_vars

\* The chat pane takes the height the terminal has after a resize: the
\* signal, then resize() and render() with the new view.chats.h.
resize_rows(h) ==
    /\ resize_handler
    /\ page_size' = h

\* A chat list long enough to scroll, any cursor in it, any pane height.
InitRender ==
    /\ chats = SortChats([i \in 1..MaxChats |-> Chat(i, i)])
    /\ current_chat \in 0..(MaxChats - 1)
    /\ page_size \in 1..MaxRows
    /\ msgs = [c \in 1..MaxChats |-> <<>>]
    /\ downloads = {}
    /\ mode = "start"
    /\ ended_by = "none"
    /\ last = [op |-> "init", chat_id |-> None, sel |-> None, cur |-> 0,
               again |-> FALSE]
    /\ calls = <<>>
    /\ drawn = <<>>
    /\ notified = <<>>
    /\ steps = 0
    /\ chat_size = ChatListRatio
    /\ resized = <<>>
    /\ status_msg = ""
    /\ msg_idx = [c \in 1..MaxChats |-> 0]
    /\ lock = "free"
    /\ todo = [c \in Contexts |-> <<>>]
    /\ drawing = {}
    /\ suspended = FALSE
    /\ seen = [ids |-> <<>>, chat_id |-> None, pending |-> <<>>]

\* render() over the cursors and the pane heights: the loop starts, the
\* cursor moves, the terminal is resized.
NextRender ==
    \/ handle_chats_enter /\ UNCHANGED rest
    \/ \E r \in Repeats : key_j(r) /\ UNCHANGED rest
    \/ \E r \in Repeats : key_k(r) /\ UNCHANGED rest
    \/ key_J /\ UNCHANGED rest
    \/ key_gg /\ UNCHANGED rest
    \/ \E h \in 1..MaxRows : resize_rows(h) /\ UNCHANGED <<conc, prompt>>

SpecRender == InitRender /\ [][NextRender]_vars

\* ------------------------------------------- the two contexts interleaved
Step(step, pane) == [step |-> step, pane |-> pane]

RECURSIVE Program(_, _)
\* The steps a context takes to make a sequence of draw calls: the calls made
\* under `with self.lock` lie between an acquire and a release, each draw call
\* has a start and an end.
Program(dr, held) ==
    IF dr = <<>>
    THEN IF held THEN <<Step("release", "-")>> ELSE <<>>
    ELSE IF Head(dr).locked /\ ~held
         THEN <<Step("acquire", "-")>> \o Program(dr, TRUE)
    ELSE IF ~Head(dr).locked /\ held
         THEN <<Step("release", "-")>> \o Program(dr, FALSE)
    ELSE <<Step("begin", Head(dr).pane), Step("end", Head(dr).pane)>>
         \o Program(Tail(dr), held)

HasCall(cl, f) == \E i \in 1..Len(cl) : cl[i].f = f

\* The steps of a key action: its draw calls, inside the suspension scope when
\* the action presents its result before the scope is left (edit_msg,
\* write_long_msg), after it when the scope is left first (send_voice).
KeyProgram(cl, dr) ==
    IF ~HasCall(cl, "suspend") THEN Program(dr, FALSE)
    ELSE IF HasCall(cl, "resume")
    THEN <<Step("suspend", "-"), Step("resume", "-")>> \o Program(dr, FALSE)
    ELSE <<Step("suspend", "-")>> \o Program(dr, FALSE) \o <<Step("resume", "-")>>

Store == <<chats, current_chat, msgs, downloads, mode, ended_by,
           last, calls, drawn, notified, steps, chat_size, resized, page, prompt>>

\* The events whose handler makes one call that changes the Store.
OneWrite ==
    \/ Update
    \/ \E m \in Messages : update_new_msg(m)
    \/ \E c \in EventChats, i \in MsgIds, nc \in Contents : update_msg_content(c, i, nc)
    \/ \E f \in FileIds, done \in BOOLEAN : update_file(f, done)

\* The backend-notification context takes the next event: the handler's reads
\* and writes of the Store, then its draw calls step by step.
start_update ==
    /\ todo["upd"] = <<>>
    /\ steps < MaxConcSteps
    /\ OneWrite
    /\ todo' = [todo EXCEPT !["upd"] = Program(drawn', FALSE)]
    /\ UNCHANGED <<lock, drawing, suspended, seen, page, prompt>>

\* update_msg_send_succeeded up to its first write: add_message. What is left
\* is remove_message and the redraw.
send_succeeded_add(msg, old_message_id) ==
    /\ Room(msg.chat_id, msg.id)
    /\ Tick("updateMessageSendSucceeded", msg.chat_id)
    /\ msgs' = add_message(msgs, msg.chat_id, msg)
    /\ drawn' = refresh_if_current(chats, current_chat, msg.chat_id)
    /\ calls' = <<>> /\ notified' = <<>>
    /\ UNCHANGED <<chats, current_chat, downloads, mode, ended_by>>

\* The message-send-succeeded event, its two writes apart: the confirmed
\* message is added, the local echo is removed in a later step.
start_send_succeeded ==
    /\ todo["upd"] = <<>>
    /\ steps < MaxConcSteps
    /\ \E m \in Messages, old \in MsgIds :
          /\ m.sender_user_id = Me /\ old # m.id
          /\ send_succeeded_add(m, old)
          /\ todo' = [todo EXCEPT !["upd"] =
                 <<Step("remove", <<m.chat_id, old, m.id,
                                    ~HasMsg(msgs[m.chat_id], m.id)
                                        /\ HasMsg(msgs[m.chat_id], old)>>)>>
                 \o Program(drawn', FALSE)]
    /\ UNCHANGED <<lock, drawing, suspended, seen, page, prompt>>

\* remove_message(chat_id, old_message_id) of that handler.
remove_old(ctx) ==
    /\ todo[ctx] # <<>> /\ Head(todo[ctx]).step = "remove"
    /\ msgs' = remove_message(msgs, Head(todo[ctx]).pane[1], Head(todo[ctx]).pane[2])
    /\ todo' = [todo EXCEPT ![ctx] = Tail(@)]
    /\ UNCHANGED <<chats, current_chat, downloads, mode, ended_by, last, calls,
                   drawn, notified, steps, chat_size, resized, page, prompt,
                   lock, drawing, suspended, seen>>

\* The main context reads the next key: the action's reads and writes of the
\* Store, then its draw calls step by step.
start_key ==
    /\ todo["main"] = <<>>
    /\ steps < MaxConcSteps
    /\ \/ Key /\ UNCHANGED prompt
       \/ key_bp /\ UNCHANGED prompt
       \/ \E text \in Texts : write_long_msg(text)
    /\ todo' = [todo EXCEPT !["main"] = KeyProgram(calls', drawn')]
    /\ UNCHANGED <<lock, drawing, suspended, seen, page>>

\* SIGWINCH: Python runs resize_handler on the main context, between two
\* steps of whatever that context is doing; the interrupted code goes on when
\* the handler returns.
signal_resize ==
    /\ steps < MaxConcSteps
    /\ resize_handler
    /\ todo' = [todo EXCEPT !["main"] = Program(drawn', FALSE) \o @]
    /\ UNCHANGED <<lock, drawing, suspended, seen, page>>

\* with self.lock: blocks until the lock is free.
acquire(ctx) ==
    /\ todo[ctx] # <<>> /\ Head(todo[ctx]).step = "acquire"
    /\ lock = "free"
    /\ lock' = ctx
    /\ todo' = [todo EXCEPT ![ctx] = Tail(@)]
    /\ UNCHANGED <<Store, drawing, suspended, seen>>

\* Leaving the with block.
release(ctx) ==
    /\ todo[ctx] # <<>> /\ Head(todo[ctx]).step = "release"
    /\ lock' = "free"
    /\ todo' = [todo EXCEPT ![ctx] = Tail(@)]
    /\ UNCHANGED <<Store, drawing, suspended, seen>>

\* The message ids a draw of the message pane reads, and the removal the
\* backend-notification context has yet to make at that moment.
Reads ==
    [ids |-> IF id_by_index(chats, current_chat) = None THEN <<>>
             ELSE [i \in 1..Len(msgs[Selected.id]) |-> msgs[Selected.id][i].id],
     chat_id |-> id_by_index(chats, current_chat),
     pending |-> IF todo["upd"] # <<>> /\ Head(todo["upd"]).step = "remove"
                 THEN Head(todo["upd"]).pane ELSE <<>>]

\* A draw call on a pane starts.
begin_draw(ctx) ==
    /\ todo[ctx] # <<>> /\ Head(todo[ctx]).step = "begin"
    /\ drawing' = drawing \cup {<<ctx, Head(todo[ctx]).pane>>}
    /\ seen' = IF ctx = "main" /\ Head(todo[ctx]).pane = "msgs" THEN Reads ELSE seen
    /\ todo' = [todo EXCEPT ![ctx] = Tail(@)]
    /\ UNCHANGED <<Store, lock, suspended>>

\* A draw call returns.
end_draw(ctx) ==
    /\ todo[ctx] # <<>> /\ Head(todo[ctx]).step = "end"
    /\ drawing' = drawing \ {<<ctx, Head(todo[ctx]).pane>>}
    /\ todo' = [todo EXCEPT ![ctx] = Tail(@)]
    /\ UNCHANGED <<Store, lock, suspended, seen>>

\* with suspend(self.view): the external program owns the terminal.
enter_suspend ==
    /\ todo["main"] # <<>> /\ Head(todo["main"]).step = "suspend"
    /\ suspended' = TRUE
    /\ todo' = [todo EXCEPT !["main"] = Tail(@)]
    /\ UNCHANGED <<Store, lock, drawing, seen>>

\* Leaving the suspension scope.
leave_suspend ==
    /\ todo["main"] # <<>> /\ Head(todo["main"]).step = "resume"
    /\ suspended' = FALSE
    /\ todo' = [todo EXCEPT !["main"] = Tail(@)]
    /\ UNCHANGED <<Store, lock, drawing, seen>>

NextConc ==
    \/ start_update
    \/ start_send_succeeded
    \/ start_key
    \/ signal_resize
    \/ \E ctx \in Contexts : remove_old(ctx)
    \/ \E ctx \in Contexts : acquire(ctx)
    \/ \E ctx \in Contexts : release(ctx)
    \/ \E ctx \in Contexts : begin_draw(ctx)
    \/ \E ctx \in Contexts : end_draw(ctx)
    \/ enter_suspend
    \/ leave_suspend

SpecConc == Init /\ [][NextConc]_vars

\* ------------------------------------------- the cursor under interleaving
\* A chat handler makes three separate accesses to the Store and takes no lock
\* for them: it reads the selected id, update_chat() merges and re-orders,
\* _refresh_current_chat() writes the cursor. The main context can run between
\* any two of them.

\* The head of a chat handler: current_chat_id = id_by_index(current_chat).
\* What is left is update_chat() and, when `resolves`, the re-resolution.
chat_handler_read(op, chat_id, updates, resolves) ==
    /\ Tick(op, chat_id)
    /\ calls' = <<>> /\ drawn' = <<>> /\ notified' = <<>>
    /\ todo' = [todo EXCEPT !["upd"] =
           <<Step("update_chat", <<chat_id, updates,
                                   id_by_index(chats, current_chat), resolves>>)>>]
    /\ UNCHANGED <<chats, current_chat, msgs, downloads, mode, ended_by>>

\* The backend-notification context takes the next chat event.
start_chat_update ==
    /\ todo["upd"] = <<>>
    /\ steps < MaxConcSteps
    /\ \/ \E c \in EventChats, o \in Orders :
             chat_handler_read("updateChatOrder", c, [order |-> o], TRUE)
       \/ \E c \in EventChats, t \in Titles :
             chat_handler_read("updateChatTitle", c, [title |-> t], TRUE)
       \/ \E c \in EventChats, b \in BOOLEAN :
             chat_handler_read("updateChatIsMarkedAsUnread", c,
                               [is_marked_as_unread |-> b], TRUE)
       \/ \E c \in EventChats, b \in BOOLEAN, o \in Orders :
             chat_handler_read("updateChatIsPinned", c,
                               [is_pinned |-> b, order |-> o], TRUE)
       \/ \E c \in EventChats, n \in {0, 1} :
             chat_handler_read("updateChatReadInbox", c, [unread_count |-> n], TRUE)
       \/ \E c \in EventChats, o \in Orders :
             chat_handler_read("updateChatDraftMessage", c, [order |-> o], TRUE)
       \/ \E c \in EventChats, m \in {None, 1}, o \in Orders :
             chat_handler_read("updateChatLastMessage", c,
                               [last_message |-> m, order |-> o], TRUE)
       \/ \E c \in EventChats, mf \in {0, MuteForever} :
             chat_handler_read("updateChatNotificationSettings", c,
                               [mute_for |-> mf], FALSE)
    /\ UNCHANGED <<lock, drawing, suspended, seen, page, prompt>>

\* update_chat(chat_id, **updates) of that handler: a lookup failure ends the
\* handler (swallowed); update_chat_notification_settings goes on to render(),
\* the other handlers to _refresh_current_chat().
update_chat_step(ctx) ==
    /\ todo[ctx] # <<>> /\ Head(todo[ctx]).step = "update_chat"
    /\ LET chat_id == Head(todo[ctx]).pane[1]
           updates == Head(todo[ctx]).pane[2]
           current_chat_id == Head(todo[ctx]).pane[3]
           resolves == Head(todo[ctx]).pane[4]
       IN IF ~HasChat(chats, chat_id)
          THEN /\ todo' = [todo EXCEPT ![ctx] = <<>>]
               /\ UNCHANGED <<chats, drawn>>
          ELSE /\ chats' = update_chat(chats, chat_id, updates)
               /\ IF resolves
                  THEN /\ todo' = [todo EXCEPT ![ctx] =
                              <<Step("refresh", current_chat_id)>>]
                       /\ UNCHANGED drawn
                  ELSE /\ drawn' = render(chats', current_chat)
                       /\ todo' = [todo EXCEPT ![ctx] = Program(drawn', FALSE)]
    /\ UNCHANGED <<current_chat, msgs, downloads, mode, ended_by, last, calls,
                   notified, steps, chat_size, resized, page, prompt,
                   lock, drawing, suspended, seen>>

\* _refresh_current_chat(current_chat_id) of that handler: nothing for None,
\* else the cursor is set to the index of that id and render() follows.
refresh_current_chat_step(ctx) ==
    /\ todo[ctx] # <<>> /\ Head(todo[ctx]).step = "refresh"
    /\ refresh_current_chat(chats, Head(todo[ctx]).pane)
    /\ todo' = [todo EXCEPT ![ctx] = Program(drawn', FALSE)]
    /\ UNCHANGED <<chats, msgs, downloads, mode, ended_by, last, calls,
                   notified, steps, chat_size, resized, page, prompt,
                   lock, drawing, suspended, seen>>

\* Chat events on the backend-notification context, their Store accesses
\* apart, interleaved with the keys of the main context.
NextCursor ==
    \/ start_chat_update
    \/ \E ctx \in Contexts : update_chat_step(ctx)
    \/ \E ctx \in Contexts : refresh_current_chat_step(ctx)
    \/ start_key
    \/ \E ctx \in Contexts : acquire(ctx)
    \/ \E ctx \in Contexts : release(ctx)
    \/ \E ctx \in Contexts : begin_draw(ctx)
    \/ \E ctx \in Contexts : end_draw(ctx)
    \/ enter_suspend
    \/ leave_suspend

SpecCursor == Init /\ [][NextCursor]_vars

\* ------------------------------------------------------------------ claims

MutationKeys == {"u", "p", "m", "r"}
ChatIdsInOrder == [i \in 1..Len(chats) |-> chats[i].id]
ChatById(chat_id) == chats[IndexOf(chats, chat_id, 1) + 1]

\* C1: in any interleaving of update events and key actions, no draw call on
\* a pane starts while another draw call is in progress (the draw calls made
\* without the lock, by refresh_msgs() called from a message handler, are what
\* breaks it).
C1_NoOverlappingDraws == Cardinality(drawing) <= 1

\* C2: after a chat update event that may reorder the chat list, run to
\* completion, the chat under the cursor is the chat that was selected before
\* the event (which the list still holds).
C2_CursorFollowsSelection ==
    (last.op \in ReorderOps /\ HasChat(chats, last.sel))
        => id_by_index(chats, current_chat) = last.sel

\* C2 witness: a reordering event moved the selected chat and the cursor with it.
C2_Witness ==
    /\ last.op \in ReorderOps
    /\ current_chat # last.cur
    /\ id_by_index(chats, current_chat) = last.sel

\* The scenario of C3: from the list {id 1: order 5, id 2: order 10}, both
\* unpinned, the first operation is update_chat_order(chat_id = 1, order = 20).
C3_Scenario ==
    /\ steps = 1
    /\ last.op = "updateChatOrder"
    /\ last.chat_id = 1
    /\ ChatById(1).order = 20

\* C3 as stated: the display order becomes [id 2, id 1], and a selection of
\* id 1 ends at index 1.
C3_Original ==
    C3_Scenario =>
        /\ ChatIdsInOrder = <<2, 1>>
        /\ last.sel = 1 => current_chat = 1

\* C3 amended: under the display order (is_pinned desc, order desc) the list
\* becomes [id 1, id 2]; a selection of id 1 ends at index 0, one of id 2 at
\* index 1.
C3_OrderScenario ==
    C3_Scenario =>
        /\ ChatIdsInOrder = <<1, 2>>
        /\ last.sel = 1 => current_chat = 0
        /\ last.sel = 2 => current_chat = 1

\* C3 witness: the scenario with id 1 selected.
C3_Witness == C3_Scenario /\ last.sel = 1 /\ current_chat = 0

\* C4: a new-message event with a file smaller than the ceiling makes exactly
\* one download_file call for the file id and leaves exactly one registry
\* entry for it, (file id -> chat id, message id); a later file-status event
\* reporting the file completely downloaded removes the entry.
C4_DownloadRegistry ==
    [][/\ \A m \in Messages :
            (/\ update_new_msg(m)
             /\ m.content.file_id # None
             /\ m.content.size < max_download_size)
            => /\ calls' = <<Call("download_file", m.content.file_id, None)>>
               /\ {d \in downloads' : d[1] = m.content.file_id}
                     = {<<m.content.file_id, m.chat_id, m.id>>}
       /\ \A f \in FileIds :
            (update_file(f, TRUE) /\ Tracked(downloads, f))
            => ~Tracked(downloads', f)]_vars

\* The chat with this id is in the list and muted.
MutedById(cs, chat_id) ==
    \E i \in 1..Len(cs) : cs[i].id = chat_id /\ cs[i].mute_for # 0

\* C5: a new-message event raises a notification if and only if the chat with
\* the message's chat id is not muted and the sender is not the local user.
C5_NotifyUnlessMutedOrMine ==
    [][\A m \in Messages :
          update_new_msg(m)
          => ((notified' # <<>>)
                <=> (~MutedById(chats, m.chat_id) /\ ~is_me(m.sender_user_id)))]_vars

\* C6 as stated: an update event that concerns a chat other than the selected
\* one makes no draw call.
C6_Original ==
    (last.op \in UpdateOps /\ last.chat_id # last.sel) => drawn = <<>>

\* C6 amended: a message-level update event (new message, content changed,
\* send succeeded) makes a draw call only if its chat is the selected chat;
\* a chat-level update of a chat of the list renders whichever chat it is.
C6_SilentMessageUpdates ==
    /\ (last.op \in MsgOps /\ last.chat_id # last.sel) => drawn = <<>>
    /\ (last.op \in ChatOps /\ HasChat(chats, last.chat_id))
           => drawn = render(chats, current_chat)

\* C6 witness: a new message was stored in a listed chat that is not the
\* selected one, and nothing was drawn.
C6_Witness ==
    /\ last.op = "updateNewMessage"
    /\ HasChat(chats, last.chat_id)
    /\ last.chat_id # last.sel
    /\ msgs[last.chat_id] # <<>>
    /\ drawn = <<>>

\* C7: the keys u, p, m and r change no field of any chat record of the Store.
C7_KeysLeaveStoreAlone ==
    [][last'.op \in MutationKeys => chats' = chats]_vars

\* C8: the mute key on a chat whose mute_for is 0 requests mute_for =
\* 2147483647 for that chat, and pressed again on the same chat it requests
\* mute_for = 0.
C8_MuteToggle ==
    [][last'.op = "m"
       => /\ Len(calls') = 1
          /\ calls'[1].f = "set_chat_nottification_settings"
          /\ calls'[1].a = Selected.id
          /\ Selected.mute_for = 0 => calls'[1].b = MuteForever
          /\ (last.op = "m" /\ last'.again /\ calls[1].b = MuteForever)
                => calls'[1].b = 0]_vars

\* C8 witness: the second of two presses on the same chat requested 0.
C8_Witness ==
    /\ last.op = "m" /\ last.again
    /\ calls = <<Call("set_chat_nottification_settings", last.chat_id, 0)>>

\* C9: the input loop ends only through the quit key; a failing key action
\* does not end it.
C9_OnlyQuitEndsLoop == mode = "ended" => ended_by = "quit"

\* C10: the cursor stays within [0, chat_count - 1] under any sequence of
\* navigation keys and update events; j and J never move it up, k and K never
\* down, and J, K and gg end at the edge they clamp to.
C10_CursorInRange ==
    /\ current_chat \in 0..(Len(chats) - 1)
    /\ last.op \in {"j", "J"} => current_chat >= last.cur
    /\ last.op \in {"k", "K"} => current_chat <= last.cur
    /\ (last.op = "J" /\ last.cur + BigStep >= Len(chats)) => current_chat = Len(chats) - 1
    /\ (last.op = "K" /\ last.cur - BigStep <= 0) => current_chat = 0
    /\ last.op = "gg" => current_chat = 0

\* C10 witness: J pressed at the top of the list, after an update event,
\* stopped at the last chat.
C10_Witness ==
    /\ last.op = "J" /\ steps >= 2
    /\ last.cur = 0
    /\ current_chat = Len(chats) - 1

\* C11: the edit key on a current message whose sender is not the local user,
\* or whose content is not text, makes no backend call, enters no suspension
\* scope and no editor, leaves the Store (chats, messages, registry, cursors)
\* unchanged and presents the error on the status line ("You can edit only
\* your messages!" for a foreign sender).
C11_EditRejected ==
    [][\A text \in Texts :
          (/\ edit_msg(text)
           /\ ~is_me(current_msg.sender_user_id) \/ ~is_text(current_msg))
          => /\ calls' = <<>>
             /\ UNCHANGED <<chats, current_chat, msgs, downloads, msg_idx>>
             /\ drawn' = update_status
             /\ status_msg' \in {"Error: You can edit only your messages!",
                                 "Error: You can edit text messages only!"}
             /\ ~is_me(current_msg.sender_user_id)
                   => status_msg' = "Error: You can edit only your messages!"]_vars

\* C11 witness: the edit key was pressed on a message of another user and the
\* error is on the status line.
C11_Witness ==
    /\ last.op = "e"
    /\ mode = "msgs"
    /\ ~is_me(current_msg.sender_user_id)
    /\ status_msg = "Error: You can edit only your messages!"
    /\ calls = <<>>
    /\ drawn = update_status

\* A send-media key (sd, sp, sa, sv) with this path typed at the prompt.
SendMedia(file_path) ==
    \/ send_file("sd", "send_doc", file_path)
    \/ send_file("sp", "send_photo", file_path)
    \/ send_file("sa", "send_audio", file_path)
    \/ msgs_key_sv(file_path)

\* C12: a send-media key with a path that is empty or names no file makes no
\* backend call, leaves the Store unchanged and presents the rejection on the
\* status line.
C12_SendRejectionShown ==
    [][\A file_path \in Paths :
          (SendMedia(file_path) /\ ~(file_path # "" /\ isfile(file_path)))
          => /\ calls' = <<>>
             /\ UNCHANGED <<chats, current_chat, msgs, downloads>>
             /\ drawn' = update_status]_vars

\* C13: a file-status event for a file id the registry does not hold changes
\* neither the registry nor the messages nor the cursor, draws nothing, and
\* the dispatcher can take the next event.
C13_UnknownTransferNoOp ==
    /\ [][\A f \in FileIds, done \in BOOLEAN :
             (update_file(f, done) /\ ~Tracked(downloads, f))
             => /\ UNCHANGED <<downloads, msgs, chats, current_chat, mode, ended_by>>
                /\ drawn' = <<>>
                /\ calls' = <<>>
                /\ notified' = <<>>]_vars
    /\ []((last.op = "updateFile" /\ last.chat_id = None /\ steps < MaxSteps)
             => ENABLED (\E f \in FileIds, done \in BOOLEAN : update_file(f, done)))

\* C13 witness: two file-status events for an untracked file id in a row,
\* with nothing drawn.
C13_Witness ==
    /\ last.op = "updateFile"
    /\ last.chat_id = None
    /\ last.again
    /\ drawn = <<>>
    /\ downloads = {}

\* C14: the loop starts in chat-list mode; only l enters message-list mode;
\* only back (h) and q leave it, back to chat-list mode and q to the end; q
\* ends the loop from either mode and no other key does.
C14_InputStateMachine ==
    [][/\ (mode = "start" /\ mode' # "start") => mode' = "chats"
       /\ (mode # "msgs" /\ mode' = "msgs") => (mode = "chats" /\ last'.op = "l")
       /\ (mode = "msgs" /\ mode' # "msgs") => last'.op \in {"h", "q"}
       /\ (mode = "msgs" /\ last'.op = "h" /\ steps' # steps) => mode' = "chats"
       /\ (mode \in {"chats", "msgs"} /\ last'.op = "q" /\ steps' # steps)
             => mode' = "ended"
       /\ (mode # "ended" /\ mode' = "ended") => last'.op = "q"]_vars

\* The positions of a surface call in the last resize.
Where(op) == {i \in 1..Len(resized) : resized[i].op = op}
ResizeOps == {"handle_chats", "l", "h", "resize"}

\* C18: every resize (the signal, entering message-list mode, returning to
\* chat-list mode, starting the loop) erases the screen before it lays out or
\* draws anything, lays the chat pane out with chat_size and the message pane
\* with 1 - chat_size, and calls render() last; chat_size is 0.2 in
\* message-list mode and 0.5 in chat-list mode.
C18_ResizeOrder ==
    /\ mode = "msgs" => chat_size = MsgListRatio
    /\ mode = "chats" => chat_size = ChatListRatio
    /\ last.op \in ResizeOps =>
          /\ Where("stdscr.erase") # {}
          /\ Where("chats.resize") # {} /\ Where("msgs.resize") # {}
          /\ Where("render") = {Len(resized)}
          /\ \A e \in Where("stdscr.erase") :
                \A i \in Where("chats.resize") \cup Where("msgs.resize")
                         \cup Where("status.resize") \cup Where("render") : e < i
          /\ \A i \in Where("chats.resize") : resized[i].ratio = chat_size
          /\ \A i \in Where("msgs.resize") : resized[i].ratio = 100 - chat_size
          /\ drawn = render(chats, current_chat)

\* C18 witness: the resize signal arrived in message-list mode and the panes
\* were laid out 0.2 / 0.8.
C18_Witness ==
    /\ last.op = "resize"
    /\ mode = "msgs"
    /\ \E i \in Where("chats.resize") : resized[i].ratio = MsgListRatio
    /\ \E i \in Where("msgs.resize") : resized[i].ratio = 100 - MsgListRatio
    /\ Where("stdscr.erase") # {}
    /\ drawn = render(chats, current_chat)

\* The message pane drawn by the main context showed a message with this id.
Saw(id) == \E i \in 1..Len(seen.ids) : seen.ids[i] = id

\* C15: while a message-send-succeeded event that replaces a local echo of the
\* selected chat is being processed, no draw of the message pane by the main
\* context reads a message list that holds both the echo (old_message_id) and
\* its confirmed replacement.
C15_NoPartialUpdateSeen ==
    (/\ seen.pending # <<>>
     /\ seen.pending[4]
     /\ seen.chat_id = seen.pending[1])
        => ~(Saw(seen.pending[2]) /\ Saw(seen.pending[3]))

\* C16: while the main context is inside a suspension scope, no draw call
\* starts on the rendering surface, from either context.
C16_NoDrawWhileSuspended ==
    [][suspended => drawing' \subseteq drawing]_vars

\* C20: no context asks for the Render Gate while it holds it (the lock is not
\* reentrant: such a request never returns).
C20_NoSelfDeadlock ==
    \A ctx \in Contexts :
        ~(/\ todo[ctx] # <<>>
          /\ Head(todo[ctx]).step = "acquire"
          /\ lock = ctx)

\* C17: an event that lacks a field its handler needs is swallowed with no
\* effect: no Store write, no registry change, no download call, no
\* notification and no draw (a new-message event whose message record has no
\* sender is such an event).
C17_MalformedEventNoEffect ==
    [][/\ \A op \in UpdateOps :
             malformed_event(op)
             => /\ UNCHANGED <<chats, current_chat, msgs, downloads>>
                /\ calls' = <<>> /\ drawn' = <<>> /\ notified' = <<>>
       /\ \A m \in SenderlessMessages :
             update_new_msg(m)
             => /\ UNCHANGED <<chats, current_chat, msgs, downloads>>
                /\ calls' = <<>> /\ drawn' = <<>> /\ notified' = <<>>]_vars

\* The last operation called render().
Rendered == last.op \in {"handle_chats", "j", "k", "J", "gg", "resize"} /\ drawn # <<>>

\* C19: the row render() highlights in the chat pane is the cursor itself
\* while the cursor is within the first page (current_chat < page height);
\* beyond it the row stays MSGS_LEFT_SCROLL_THRESHOLD rows above the bottom
\* edge; for every page height h >= 1 the row is within [0, h - 1].
C19_HighlightedRow ==
    Rendered =>
        /\ current_chat < page_size
              => selected_chat(current_chat, page_size) = current_chat
        /\ current_chat >= page_size
              => selected_chat(current_chat, page_size)
                     <= page_size - MSGS_LEFT_SCROLL_THRESHOLD
        /\ selected_chat(current_chat, page_size) \in 0..(page_size - 1)

\* The keys that move the cursor.
NavKeys == {"j", "k", "J", "K", "gg"}

\* The chat the cursor designates.
CursorChat == id_by_index(chats, current_chat)

\* C21: in any interleaving of chat handlers with user input, the id of the
\* chat at index current_chat changes only by a navigation key of the main
\* context: not by a handler's re-ordering of the list, and not by a handler's
\* cursor re-resolution after a navigation key completed in between.
C21_CursorIdentity ==
    [][CursorChat' # CursorChat
          => /\ steps' = steps + 1
             /\ last'.op \in NavKeys]_vars

====
